---- MODULE Spec2Model ----
(***************************************************************************)
(* Model of the git-mcp server (src/src/main.rs): the smart_commit tool    *)
(* (grouped commit orchestrator), the generate_commit_message tool and the *)
(* external git commands they drive.                                       *)
(*                                                                         *)
(* Strings are sequences of tokens.  A token is a fragment of a format     *)
(* string or an atom of caller/tool supplied text.  The source's non-ASCII *)
(* literals are written as ASCII tokens:                                   *)
(*   OK_MARK    the check-mark emoji that starts a success line            *)
(*   FAIL_MARK  the cross-mark emoji that starts a failure line            *)
(*   BODY_MARK  the "detailed description:" body-section marker            *)
(*   PUSH_HINT  the light-bulb "to push, run: git push" reminder           *)
(***************************************************************************)
EXTENDS Integers, Sequences, FiniteSets, TLC

\* ------------------------------------------------------------------ bounds

\* Largest number of groups in param.commits.
MaxGroups == 2

\* Largest number of detail lines given to generate_commit_message.
MaxDetails == 2

\* Largest number of groups of a smart_commit run during which a concurrent
\* request is dispatched.
MaxConcGroups == 1

\* ------------------------------------------------------------- text tokens

OK_MARK == "[OK]"
FAIL_MARK == "[FAIL]"
BODY_MARK == "DETAILS:"
PUSH_HINT == "[tip] to push, run: git push"
NL == "NL"
FENCE == "FENCE"

Digits == <<"0", "1", "2", "3", "4", "5", "6", "7", "8", "9">>

\* Display of an unsigned integer ({} in format!): its decimal digits.
RECURSIVE NumStr(_)
NumStr(n) ==
    IF n < 10 THEN <<Digits[n + 1]>>
    ELSE NumStr(n \div 10) \o <<Digits[(n % 10) + 1]>>

\* [String]::join(sep)
RECURSIVE Join(_, _)
Join(strs, sep) ==
    IF Len(strs) = 0 THEN <<>>
    ELSE IF Len(strs) = 1 THEN strs[1]
    ELSE strs[1] \o sep \o Join(Tail(strs), sep)

\* Whether token tok occurs in string s.
Contains(s, tok) == \E i \in 1..Len(s) : s[i] = tok

\* ------------------------------------------------ classification registry

COMMIT_TYPES == <<
    [emoji |-> "sparkles",  name |-> "feat"],
    [emoji |-> "bug",       name |-> "fix"],
    [emoji |-> "memo",      name |-> "docs"],
    [emoji |-> "lipstick",  name |-> "style"],
    [emoji |-> "recycle",   name |-> "refactor"],
    [emoji |-> "zap",       name |-> "perf"],
    [emoji |-> "check",     name |-> "test"],
    [emoji |-> "wrench",    name |-> "chore"],
    [emoji |-> "package",   name |-> "build"],
    [emoji |-> "worker",    name |-> "ci"],
    [emoji |-> "rewind",    name |-> "revert"],
    [emoji |-> "tada",      name |-> "init"],
    [emoji |-> "art",       name |-> "ui"],
    [emoji |-> "gear",      name |-> "config"],
    [emoji |-> "shuffle",   name |-> "merge"] >>

\* Mutant of TypeInfo: a miss falls back to the last entry, not the first.
TypeInfo_LastOnMiss(key) ==
    IF \E i \in 1..Len(COMMIT_TYPES) : COMMIT_TYPES[i].name = key
    THEN COMMIT_TYPES[CHOOSE i \in 1..Len(COMMIT_TYPES) :
                          COMMIT_TYPES[i].name = key]
    ELSE COMMIT_TYPES[Len(COMMIT_TYPES)]

\* COMMIT_TYPES.iter().find(|t| t.name == key).unwrap_or(&COMMIT_TYPES[0])
TypeInfo(key) ==
    IF \E i \in 1..Len(COMMIT_TYPES) : COMMIT_TYPES[i].name = key
    THEN LET i == CHOOSE i \in 1..Len(COMMIT_TYPES) :
                      /\ COMMIT_TYPES[i].name = key
                      /\ \A j \in 1..(i - 1) : COMMIT_TYPES[j].name # key
         IN COMMIT_TYPES[i]
    ELSE COMMIT_TYPES[1]

\* ------------------------------------------------------ message composing

\* details.iter().map(|d| format!("- {}", d)).collect().join("\n")
DetailsStr(details) ==
    Join([i \in 1..Len(details) |-> <<"- ">> \o details[i]], <<NL>>)

\* format!("{} {}: {}", emoji, name, short_desc)
Header(commit_type, short_desc) ==
    <<TypeInfo(commit_type).emoji, " ", TypeInfo(commit_type).name, ": ">>
        \o short_desc

\* format!("{} {}: {}\n\n<BODY_MARK>\n{}", emoji, name, short_desc, details_str)
WithBody(commit_type, short_desc, details) ==
    Header(commit_type, short_desc)
        \o <<NL, NL, BODY_MARK, NL>> \o DetailsStr(details)

\* commit_msg of smart_commit
SmartCommitMsg(commit_type, short_desc, details) ==
    IF Len(details) = 0
    THEN Header(commit_type, short_desc)
    ELSE WithBody(commit_type, short_desc, details)

\* commit_msg of generate_commit_message: the body section is always appended
GenerateCommitMsg(commit_type, short_desc, details) ==
    WithBody(commit_type, short_desc, details)

\* the text generate_commit_message returns
GenerateResponse(commit_type, short_desc, details) ==
    <<"[memo] generated commit message:", NL, NL, FENCE, NL>>
        \o GenerateCommitMsg(commit_type, short_desc, details)
        \o <<NL, FENCE>>

\* ------------------------------------------------------------ input space

\* Files the repository's working tree holds.
RepoFiles == {"a.txt", "b.txt"}

\* group.files of the groups submitted: the empty list, files of the working
\* tree, and a path that matches no file.
PathLists == {<<>>, <<"a.txt">>, <<"b.txt">>, <<"nope.txt">>}

\* group.commit_type, group.short_desc and group.details: a declared key
\* with two detail lines, and a key the registry does not hold with none.
GroupTexts == {
    [commit_type |-> "fix", short_desc |-> <<"s1">>,
     details |-> << <<"d1">>, <<"d2">> >>],
    [commit_type |-> "wip", short_desc |-> <<"s2">>, details |-> <<>>] }

CommitGroup ==
    {[files |-> f, commit_type |-> t.commit_type, short_desc |-> t.short_desc,
      details |-> t.details] : f \in PathLists, t \in GroupTexts}

\* Vec<CommitGroup> of at most MaxGroups groups
RECURSIVE SeqsUpTo(_, _)
SeqsUpTo(S, n) ==
    IF n = 0 THEN {<<>>}
    ELSE LET shorter == SeqsUpTo(S, n - 1)
         IN shorter \cup {Append(q, x) : q \in {r \in shorter : Len(r) = n - 1},
                                         x \in S}

\* CommitMessageParam of generate_commit_message
ParamTypes == {COMMIT_TYPES[i].name : i \in 1..Len(COMMIT_TYPES)} \cup {"wip"}
ParamDescs == {<<"s1">>, <<>>}
ParamDetails == SeqsUpTo({<<"d1">>, <<>>}, MaxDetails)

\* ------------------------------------------------------------------- state

VARIABLES
    pc,             \* position of the tool handler
    tool,           \* the tool the request names
    commits,        \* param.commits
    gen_param,      \* param of generate_commit_message
    idx,            \* enumerate() index of the group being processed
    commit_msg,     \* commit_msg of the current group
    results,        \* results: Vec<String>
    success_count,  \* success_count
    response,       \* the String the handler returns
    dirty,          \* repository: files with unstaged changes
    index,          \* repository: files with staged changes
    history,        \* repository: commits created, oldest first
    calls,          \* external commands smart_commit launched, oldest first
    repo_ok,        \* whether repo_path is a git repository
    index0,         \* the index as it was before any request
    gc_pc,          \* position of the git_commit handler
    gc_message,     \* param.message of git_commit
    gc_response,    \* the String git_commit returns
    gc_calls        \* external commands git_commit launched, oldest first

vars == <<pc, tool, commits, gen_param, idx, commit_msg, results,
          success_count, response, dirty, index, history, calls,
          repo_ok, index0, gc_pc, gc_message, gc_response, gc_calls>>

runVars == <<idx, commit_msg, results, success_count>>
repoVars == <<dirty, index, history>>
gcVars == <<gc_pc, gc_message, gc_response, gc_calls>>
\* What smart_commit and generate_commit_message never write.
otherVars == <<repo_ok, index0, gcVars>>
\* What git_commit and git_status never write.
smartVars == <<commits, gen_param, runVars, calls>>

NoParam == [commit_type |-> "", short_desc |-> <<>>, details |-> <<>>]

Init ==
    /\ pc = "idle"
    /\ tool = "none"
    /\ commits = <<>>
    /\ gen_param = NoParam
    /\ idx = 0
    /\ commit_msg = <<>>
    /\ results = <<>>
    /\ success_count = 0
    /\ response = <<>>
    /\ repo_ok \in BOOLEAN
    /\ dirty \in (IF repo_ok THEN SUBSET RepoFiles ELSE {{}})
    /\ index \in (IF repo_ok THEN SUBSET (RepoFiles \ dirty) ELSE {{}})
    /\ index0 = index
    /\ history = <<>>
    /\ calls = <<>>
    /\ gc_pc = "idle"
    /\ gc_message = <<>>
    /\ gc_response = <<>>
    /\ gc_calls = <<>>

\* --------------------------------------------------- external git commands

\* String::from_utf8_lossy(&output.stderr) of a command that exited nonzero
Stderr == <<"stderr">>
\* Display of the io::Error of a command that could not be launched
IoError == <<"io_error">>

\* `git add <paths>` exits 0 iff it runs in a repository, every path matches
\* a file (no path at all: "Nothing specified, nothing added.", exit 0) and
\* nothing else goes wrong.
AddCanSucceed(paths) ==
    /\ repo_ok
    /\ \A i \in 1..Len(paths) : paths[i] \in RepoFiles

PathSet(paths) == {paths[i] : i \in 1..Len(paths)}

\* `git commit -m <msg>` exits 0 iff it runs in a repository, something is
\* staged and nothing else goes wrong; it commits the whole index.
CommitCanSucceed == repo_ok /\ index # {}

\* The group of the current iteration.
group == commits[idx + 1]

\* The command in flight has returned: its entry records how it ended
\* ("ok": exit status 0, "fail": nonzero, "launch_err": Err from output()).
Returned(how) == [calls EXCEPT ![Len(calls)].exit = how]

\* ------------------------------------------------------------ result lines

\* "<mark> #{}grp [{}]" : the start every per-group line shares
LineHead(mark, n, commit_type) ==
    <<mark, " #">> \o NumStr(n) \o <<"grp [", commit_type, "]">>

\* format!("<FAIL_MARK> #{}grp [{}] git add failed: {}", idx + 1, commit_type, stderr)
AddFailedLine(n, g) ==
    LineHead(FAIL_MARK, n, g.commit_type) \o <<" git add failed: ">> \o Stderr

\* format!("<FAIL_MARK> #{}grp [{}] running git add failed: {}", idx + 1, commit_type, e)
AddLaunchLine(n, g) ==
    LineHead(FAIL_MARK, n, g.commit_type)
        \o <<" running git add failed: ">> \o IoError

\* format!("<OK_MARK> #{}grp [{}]: {} ({} files)", idx + 1, commit_type, short_desc, files.len())
CommittedLine(n, g) ==
    LineHead(OK_MARK, n, g.commit_type) \o <<": ">> \o g.short_desc
        \o <<" (">> \o NumStr(Len(g.files)) \o <<" files)">>

\* format!("<FAIL_MARK> #{}grp [{}] git commit failed: {}", idx + 1, commit_type, stderr)
CommitFailedLine(n, g) ==
    LineHead(FAIL_MARK, n, g.commit_type)
        \o <<" git commit failed: ">> \o Stderr

\* format!("<FAIL_MARK> #{}grp [{}] running git commit failed: {}", idx + 1, commit_type, e)
CommitLaunchLine(n, g) ==
    LineHead(FAIL_MARK, n, g.commit_type)
        \o <<" running git commit failed: ">> \o IoError

\* format!("[chart] grouped commit done: {}/{} groups ok\n\n{}", success_count,
\*         param.commits.len(), results.join("\n"))
Summary(count, total, lines) ==
    <<"[chart] grouped commit done: ">> \o NumStr(count) \o <<"/">>
        \o NumStr(total) \o <<" groups ok", NL, NL>> \o Join(lines, <<NL>>)

\* Mutant of Report: the reminder is appended whatever the count.
Report_AlwaysHint(count, total, lines) ==
    Summary(count, total, lines) \o <<NL, NL, PUSH_HINT>>

\* if success_count > 0 { format!("{}\n\n<PUSH_HINT>", summary) } else { summary }
Report(count, total, lines) ==
    IF count > 0
    THEN Summary(count, total, lines) \o <<NL, NL, PUSH_HINT>>
    ELSE Summary(count, total, lines)

\* ----------------------------------------------------------- smart_commit

\* The request arrives: results = Vec::new(), success_count = 0.
SmartCommitCall ==
    /\ pc = "idle"
    /\ \E groups \in SeqsUpTo(CommitGroup, MaxGroups) : commits' = groups
    /\ tool' = "smart_commit"
    /\ idx' = 0
    /\ results' = <<>>
    /\ success_count' = 0
    /\ pc' = "loop"
    /\ UNCHANGED <<otherVars, gen_param, commit_msg, response, repoVars, calls>>

\* Top of the loop body: the message is composed and `git add <files>` is
\* launched; the handler blocks until it exits.
BeginGroup ==
    /\ pc = "loop"
    /\ idx < Len(commits)
    /\ commit_msg' = SmartCommitMsg(group.commit_type, group.short_desc,
                                    group.details)
    /\ calls' = Append(calls, [cmd |-> "add", args |-> group.files,
                               group |-> idx + 1, exit |-> "running"])
    /\ pc' = "staging"
    /\ UNCHANGED <<otherVars, tool, commits, gen_param, idx, results, success_count,
                   response, repoVars>>

\* Mutant of AddFailed: the failure ends the loop (break instead of continue).
AddFailed_Abort ==
    /\ pc = "staging"
    /\ calls' = Returned("fail")
    /\ results' = Append(results, AddFailedLine(idx + 1, group))
    /\ idx' = Len(commits)
    /\ pc' = "loop"
    /\ UNCHANGED <<otherVars, tool, commits, gen_param, commit_msg, success_count,
                   response, repoVars>>

\* Mutant of AddFailed: the continue is missing, the commit step follows.
AddFailed_FallThrough ==
    /\ pc = "staging"
    /\ calls' = Returned("fail")
    /\ results' = Append(results, AddFailedLine(idx + 1, group))
    /\ pc' = "staged"
    /\ UNCHANGED <<otherVars, tool, commits, gen_param, idx, commit_msg, success_count,
                   response, repoVars>>

\* Ok(output) if !output.status.success(): the line is pushed, continue.
AddFailed ==
    /\ pc = "staging"
    /\ calls' = Returned("fail")
    /\ results' = Append(results, AddFailedLine(idx + 1, group))
    /\ idx' = idx + 1
    /\ pc' = "loop"
    /\ UNCHANGED <<otherVars, tool, commits, gen_param, commit_msg, success_count,
                   response, repoVars>>

\* Mutant of AddLaunchError: the group is skipped without an outcome.
AddLaunchError_Unrecorded ==
    /\ pc = "staging"
    /\ calls' = Returned("launch_err")
    /\ idx' = idx + 1
    /\ pc' = "loop"
    /\ UNCHANGED <<otherVars, tool, commits, gen_param, commit_msg, results,
                   success_count, response, repoVars>>

\* Err(e): git could not be launched; the line is pushed, continue.
AddLaunchError ==
    /\ pc = "staging"
    /\ calls' = Returned("launch_err")
    /\ results' = Append(results, AddLaunchLine(idx + 1, group))
    /\ idx' = idx + 1
    /\ pc' = "loop"
    /\ UNCHANGED <<otherVars, tool, commits, gen_param, commit_msg, success_count,
                   response, repoVars>>

\* Ok(output) with exit status 0: the changes of the named files are staged.
AddSucceeded ==
    /\ pc = "staging"
    /\ calls' = Returned("ok")
    /\ AddCanSucceed(group.files)
    /\ index' = index \cup (dirty \cap PathSet(group.files))
    /\ dirty' = dirty \ PathSet(group.files)
    /\ pc' = "staged"
    /\ UNCHANGED <<otherVars, tool, commits, gen_param, runVars, response, history>>

\* Mutant of LaunchCommit: the commit is spawned without waiting for it, and
\* the next group's git add is launched alongside.
LaunchCommit_Pipelined ==
    /\ pc = "staged"
    /\ calls' = calls \o
          << [cmd |-> "commit", args |-> <<"-m">>, group |-> idx + 1,
              exit |-> "running"],
             [cmd |-> "add",
              args |-> IF idx + 2 <= Len(commits)
                       THEN commits[idx + 2].files ELSE <<>>,
              group |-> idx + 2, exit |-> "running"] >>
    /\ pc' = "committing"
    /\ UNCHANGED <<otherVars, tool, commits, gen_param, runVars, response, repoVars>>

\* `git commit -m <commit_msg>` is launched; the handler blocks until it exits.
LaunchCommit ==
    /\ pc = "staged"
    /\ calls' = Append(calls, [cmd |-> "commit", args |-> <<"-m">>,
                               group |-> idx + 1, exit |-> "running"])
    /\ pc' = "committing"
    /\ UNCHANGED <<otherVars, tool, commits, gen_param, runVars, response, repoVars>>

\* Mutant of CommitSucceeded: the success line is pushed, the counter is not
\* incremented.
CommitSucceeded_Uncounted ==
    /\ pc = "committing"
    /\ calls' = Returned("ok")
    /\ CommitCanSucceed
    /\ history' = Append(history, [files |-> index, message |-> commit_msg,
                                    group |-> idx + 1])
    /\ index' = {}
    /\ results' = Append(results, CommittedLine(idx + 1, group))
    /\ idx' = idx + 1
    /\ pc' = "loop"
    /\ UNCHANGED <<otherVars, tool, commits, gen_param, commit_msg,
                   success_count, response, dirty>>

\* Ok(output) if output.status.success(): the index became a commit.
CommitSucceeded ==
    /\ pc = "committing"
    /\ calls' = Returned("ok")
    /\ CommitCanSucceed
    /\ history' = Append(history, [files |-> index, message |-> commit_msg,
                                    group |-> idx + 1])
    /\ index' = {}
    /\ success_count' = success_count + 1
    /\ results' = Append(results, CommittedLine(idx + 1, group))
    /\ idx' = idx + 1
    /\ pc' = "loop"
    /\ UNCHANGED <<otherVars, tool, commits, gen_param, commit_msg, response, dirty>>

\* Mutant of CommitFailed: the failure is counted as a success.
CommitFailed_Counted ==
    /\ pc = "committing"
    /\ calls' = Returned("fail")
    /\ success_count' = success_count + 1
    /\ results' = Append(results, CommitFailedLine(idx + 1, group))
    /\ idx' = idx + 1
    /\ pc' = "loop"
    /\ UNCHANGED <<otherVars, tool, commits, gen_param, commit_msg, response, repoVars>>

\* Mutant of CommitFailed: the failure undoes the commits made so far.
CommitFailed_Rollback ==
    /\ pc = "committing"
    /\ calls' = Returned("fail")
    /\ history' = <<>>
    /\ results' = Append(results, CommitFailedLine(idx + 1, group))
    /\ idx' = idx + 1
    /\ pc' = "loop"
    /\ UNCHANGED <<otherVars, tool, commits, gen_param, commit_msg, success_count,
                   response, dirty, index>>

\* Mutant of CommitFailed: the group is retried from the staging step.
CommitFailed_Retry ==
    /\ pc = "committing"
    /\ calls' = Append(Returned("fail"),
                       [cmd |-> "add", args |-> group.files,
                        group |-> idx + 1, exit |-> "running"])
    /\ pc' = "staging"
    /\ UNCHANGED <<otherVars, tool, commits, gen_param, runVars, response, repoVars>>

\* Ok(output) with a nonzero exit status.
CommitFailed ==
    /\ pc = "committing"
    /\ calls' = Returned("fail")
    /\ results' = Append(results, CommitFailedLine(idx + 1, group))
    /\ idx' = idx + 1
    /\ pc' = "loop"
    /\ UNCHANGED <<otherVars, tool, commits, gen_param, commit_msg, success_count,
                   response, repoVars>>

\* A variant in which the launch error is unwrapped and faults the handler.
CommitLaunchError_Fault ==
    /\ pc = "committing"
    /\ calls' = Returned("launch_err")
    /\ pc' = "fault"
    /\ UNCHANGED <<otherVars, tool, commits, gen_param, runVars, response, repoVars>>

\* Err(e): git could not be launched.
CommitLaunchError ==
    /\ pc = "committing"
    /\ calls' = Returned("launch_err")
    /\ results' = Append(results, CommitLaunchLine(idx + 1, group))
    /\ idx' = idx + 1
    /\ pc' = "loop"
    /\ UNCHANGED <<otherVars, tool, commits, gen_param, commit_msg, success_count,
                   response, repoVars>>

\* The loop is over: the summary is rendered and returned.
Finish ==
    /\ pc = "loop"
    /\ idx = Len(commits)
    /\ response' = Report(success_count, Len(commits), results)
    /\ pc' = "done"
    /\ UNCHANGED <<otherVars, tool, commits, gen_param, runVars, repoVars, calls>>

\* ------------------------------------------------ generate_commit_message

GenerateCommitMessage ==
    /\ pc = "idle"
    /\ \E t \in ParamTypes, d \in ParamDescs, ds \in ParamDetails :
          /\ gen_param' = [commit_type |-> t, short_desc |-> d, details |-> ds]
          /\ response' = GenerateResponse(t, d, ds)
    /\ tool' = "generate_commit_message"
    /\ pc' = "done"
    /\ UNCHANGED <<otherVars, commits, runVars, repoVars, calls>>

\* ------------------------------------------------------------- git_commit

\* param.message of git_commit
GcMessages == {<<"m1">>}

\* The command git_commit has in flight has returned.
GcReturned(how) == [gc_calls EXCEPT ![Len(gc_calls)].exit = how]

\* `git add .` is launched; the handler blocks until it exits.
GcLaunchAdd ==
    /\ gc_pc = "idle"
    /\ \E m \in GcMessages : gc_message' = m
    /\ gc_calls' = <<[cmd |-> "add", args |-> <<".">>, exit |-> "running"]>>
    /\ gc_pc' = "adding"

\* The request names git_commit and no other request is being handled.
GitCommitCall ==
    /\ pc = "idle"
    /\ GcLaunchAdd
    /\ tool' = "git_commit"
    /\ pc' = "other"
    /\ UNCHANGED <<smartVars, response, repoVars, repo_ok, index0, gc_response>>

\* Mutant of GcAddFailed: the return is missing, the commit step follows.
GcAddFailed_FallThrough ==
    /\ gc_pc = "adding"
    /\ gc_calls' = GcReturned("fail")
    /\ gc_response' = <<FAIL_MARK, " git add failed: ">> \o Stderr
    /\ gc_pc' = "added"
    /\ UNCHANGED <<pc, tool, smartVars, response, repoVars, repo_ok, index0,
                   gc_message>>

\* Ok(output) if !output.status.success(): return the failure message.
GcAddFailed ==
    /\ gc_pc = "adding"
    /\ gc_calls' = GcReturned("fail")
    /\ gc_response' = <<FAIL_MARK, " git add failed: ">> \o Stderr
    /\ gc_pc' = "done"
    /\ UNCHANGED <<pc, tool, smartVars, response, repoVars, repo_ok, index0,
                   gc_message>>

\* Err(e): git could not be launched; return the failure message.
GcAddLaunchError ==
    /\ gc_pc = "adding"
    /\ gc_calls' = GcReturned("launch_err")
    /\ gc_response' = <<FAIL_MARK, " running git add failed: ">> \o IoError
    /\ gc_pc' = "done"
    /\ UNCHANGED <<pc, tool, smartVars, response, repoVars, repo_ok, index0,
                   gc_message>>

\* `git add .` exited 0: every change of the working tree is staged.
GcAddSucceeded ==
    /\ gc_pc = "adding"
    /\ repo_ok
    /\ gc_calls' = GcReturned("ok")
    /\ index' = index \cup dirty
    /\ dirty' = {}
    /\ gc_pc' = "added"
    /\ UNCHANGED <<pc, tool, smartVars, response, history, repo_ok, index0,
                   gc_message, gc_response>>

\* `git commit -m <message>` is launched; the handler blocks until it exits.
GcLaunchCommit ==
    /\ gc_pc = "added"
    /\ gc_calls' = Append(gc_calls, [cmd |-> "commit", args |-> <<"-m">>,
                                     exit |-> "running"])
    /\ gc_pc' = "committing"
    /\ UNCHANGED <<pc, tool, smartVars, response, repoVars, repo_ok, index0,
                   gc_message, gc_response>>

\* Ok(output) if output.status.success(): the index became a commit.
GcCommitSucceeded ==
    /\ gc_pc = "committing"
    /\ CommitCanSucceed
    /\ gc_calls' = GcReturned("ok")
    /\ history' = Append(history, [files |-> index, message |-> gc_message,
                                    group |-> 0])
    /\ index' = {}
    /\ gc_response' = <<OK_MARK, " committed!", NL, NL, PUSH_HINT>>
    /\ gc_pc' = "done"
    /\ UNCHANGED <<pc, tool, smartVars, response, dirty, repo_ok, index0,
                   gc_message>>

\* Ok(output) with a nonzero exit status.
GcCommitFailed ==
    /\ gc_pc = "committing"
    /\ gc_calls' = GcReturned("fail")
    /\ gc_response' = <<FAIL_MARK, " git commit failed: ">> \o Stderr
    /\ gc_pc' = "done"
    /\ UNCHANGED <<pc, tool, smartVars, response, repoVars, repo_ok, index0,
                   gc_message>>

\* Err(e): git could not be launched.
GcCommitLaunchError ==
    /\ gc_pc = "committing"
    /\ gc_calls' = GcReturned("launch_err")
    /\ gc_response' = <<FAIL_MARK, " running git commit failed: ">> \o IoError
    /\ gc_pc' = "done"
    /\ UNCHANGED <<pc, tool, smartVars, response, repoVars, repo_ok, index0,
                   gc_message>>

\* ------------------------------------------------------------- git_status

\* Display of the git2::Error of Repository::open / repo.statuses
Git2Error == <<"git2_error">>

\* The paths with a change, in the order statuses.iter() yields them.
FileOrder == <<"a.txt", "b.txt">>

\* One "{icon} {status} {path}\n" line per status entry.  Every change of the
\* modelled working tree is a modification of a tracked file.
RECURSIVE StatusLines(_, _)
StatusLines(paths, changed) ==
    IF Len(paths) = 0 THEN <<>>
    ELSE (IF Head(paths) \in changed
          THEN <<"[memo]", " ", "modified", " ", Head(paths), NL>>
          ELSE <<>>) \o StatusLines(Tail(paths), changed)

\* Repository::open(&repo_path) is Err: the failure is returned.
GitStatusOpenFailed ==
    /\ pc = "idle"
    /\ gc_pc = "idle"
    /\ ~repo_ok
    /\ tool' = "git_status"
    /\ response' = <<FAIL_MARK, " cannot open git repository: ">> \o Git2Error
    /\ pc' = "done"
    /\ UNCHANGED <<smartVars, repoVars, repo_ok, index0, gcVars>>

\* repo.statuses(..) is Err: the failure is returned.
GitStatusFailed ==
    /\ pc = "idle"
    /\ gc_pc = "idle"
    /\ repo_ok
    /\ tool' = "git_status"
    /\ response' = <<FAIL_MARK, " reading the status failed: ">> \o Git2Error
    /\ pc' = "done"
    /\ UNCHANGED <<smartVars, repoVars, repo_ok, index0, gcVars>>

\* The status entries are rendered, or the clean message if there is none.
GitStatusOk ==
    /\ pc = "idle"
    /\ gc_pc = "idle"
    /\ repo_ok
    /\ tool' = "git_status"
    /\ response' = IF dirty \cup index = {}
                   THEN <<OK_MARK, " working tree clean, no changes">>
                   ELSE <<"[chart] change map:", NL, NL>>
                            \o StatusLines(FileOrder, dirty \cup index)
    /\ pc' = "done"
    /\ UNCHANGED <<smartVars, repoVars, repo_ok, index0, gcVars>>

\* ------------------------------------------------------------ specification

Next ==
    \/ SmartCommitCall
    \/ BeginGroup
    \/ AddFailed
    \/ AddLaunchError
    \/ AddSucceeded
    \/ LaunchCommit
    \/ CommitSucceeded
    \/ CommitFailed
    \/ CommitLaunchError
    \/ Finish
    \/ GenerateCommitMessage
    \/ GitCommitCall
    \/ GcAddFailed
    \/ GcAddLaunchError
    \/ GcAddSucceeded
    \/ GcLaunchCommit
    \/ GcCommitSucceeded
    \/ GcCommitFailed
    \/ GcCommitLaunchError
    \/ GitStatusOpenFailed
    \/ GitStatusFailed
    \/ GitStatusOk

Spec == Init /\ [][Next]_vars

\* ------------------------------------------------- reading the run's record

\* A smart_commit run has returned.
SmartDone == tool = "smart_commit" /\ pc = "done"

\* Positions of the launches of `cmd` made for group n.
CallsOf(cmd, n) ==
    {k \in 1..Len(calls) : calls[k].cmd = cmd /\ calls[k].group = n}

\* How the first launch of `cmd` for group n ended; "none" if never made.
RECURSIVE ExitFrom(_, _, _)
ExitFrom(cmd, n, k) ==
    IF k > Len(calls) THEN "none"
    ELSE IF calls[k].cmd = cmd /\ calls[k].group = n THEN calls[k].exit
    ELSE ExitFrom(cmd, n, k + 1)
ExitOf(cmd, n) == ExitFrom(cmd, n, 1)

\* The first position from `from` on where token tok occurs in text;
\* Len(text) + 1 if there is none.
RECURSIVE FirstAt(_, _, _)
FirstAt(text, tok, from) ==
    IF from > Len(text) \/ text[from] = tok THEN from
    ELSE FirstAt(text, tok, from + 1)

\* The per-group markers of a rendered line.
IsSuccessLine(line) == Len(line) > 0 /\ line[1] = OK_MARK
IsFailureLine(line) == Len(line) > 0 /\ line[1] = FAIL_MARK

\* Parsing a rendered line "<mark> #<digits>grp [<key>]...": the position of
\* the token closing the group number, the number's digits, and the key.
NoEnd(line) == FirstAt(line, "grp [", 3)
LineGroupNo(line) == SubSeq(line, 3, NoEnd(line) - 1)
LineKey(line) == line[NoEnd(line) + 1]
LineRest(line) == SubSeq(line, NoEnd(line) + 3, Len(line))

\* Whether `suffix` ends `line`.
EndsWith(line, suffix) ==
    /\ Len(suffix) <= Len(line)
    /\ SubSeq(line, Len(line) - Len(suffix) + 1, Len(line)) = suffix

\* Whether `line` occurs in `text` as a contiguous run of tokens.
OccursIn(line, text) ==
    \E off \in 0..(Len(text) - Len(line)) :
        SubSeq(text, off + 1, off + Len(line)) = line

\* Number of recorded outcomes marked success.
SuccessLines == {i \in 1..Len(results) : IsSuccessLine(results[i])}

\* --------------------------------------------------------------------- C1

\* C1 (failure isolation): when a smart_commit run has returned, every
\* submitted group j was attempted (git add was launched for it) whatever
\* happened to the groups before it; a group whose add exited 0 had its
\* commit launched; and a group whose add and commit both exited 0 has a
\* success outcome at position j that is present in the returned report.
C1_FailureIsolation ==
    SmartDone =>
        \A j \in 1..Len(commits) :
            LET add == ExitOf("add", j)
                commit == ExitOf("commit", j)
            IN /\ add # "none"
               /\ add = "ok" => commit # "none"
               /\ (add = "ok" /\ commit = "ok") =>
                      /\ Len(results) >= j
                      /\ IsSuccessLine(results[j])
                      /\ OccursIn(results[j], response)

\* Groups [A, B]: A failed to stage, B was staged and committed.
C1_Witness ==
    /\ SmartDone
    /\ Len(commits) = 2
    /\ ExitOf("add", 1) \in {"fail", "launch_err"}
    /\ ExitOf("add", 2) = "ok"
    /\ ExitOf("commit", 2) = "ok"
    /\ IsSuccessLine(results[2])

\* --------------------------------------------------------------------- C2

\* C2 (staging failure): for every group whose git add exited nonzero or
\* could not be launched, once that add has returned exactly one outcome
\* carries the group's number, it sits at the group's position, it is a
\* failure line ending with the diagnostic of that add, git commit was never
\* launched for the group, and the run went on: the loop index has moved past
\* the group and, when the run has returned, the next group (if any) was
\* attempted.
C2_StageFailureSkipsCommit ==
    \A n \in 1..Len(commits) :
        LET add == ExitOf("add", n)
        IN add \in {"fail", "launch_err"} =>
            /\ Len(results) >= n
            /\ Cardinality({i \in 1..Len(results) :
                               LineGroupNo(results[i]) = NumStr(n)}) = 1
            /\ LineGroupNo(results[n]) = NumStr(n)
            /\ IsFailureLine(results[n])
            /\ add = "fail" => EndsWith(results[n], Stderr)
            /\ add = "launch_err" => EndsWith(results[n], IoError)
            /\ CallsOf("commit", n) = {}
            /\ idx >= n
            /\ (SmartDone /\ n < Len(commits)) => CallsOf("add", n + 1) # {}

\* The first of two groups failed to stage, and the run has returned.
C2_Witness ==
    /\ SmartDone
    /\ Len(commits) = 2
    /\ ExitOf("add", 1) = "fail"
    /\ ExitOf("add", 2) = "launch_err"

\* --------------------------------------------------------------------- C3

\* The counts the rendered summary reports: "...: <count>/<total> groups ok".
SlashPos(text) == FirstAt(text, "/", 2)
TotalEnd(text) == FirstAt(text, " groups ok", SlashPos(text) + 1)
ReportedCount(text) == SubSeq(text, 2, SlashPos(text) - 1)
ReportedTotal(text) == SubSeq(text, SlashPos(text) + 1, TotalEnd(text) - 1)

\* C3 (accounting): throughout a smart_commit run success_count equals the
\* number of recorded outcomes marked success; between groups the number of
\* outcomes equals the number of groups processed; and when the run has
\* returned, the success count and the group total the report states are the
\* number of success outcomes and the number of outcomes.
C3_Accounting ==
    tool = "smart_commit" =>
        /\ success_count = Cardinality(SuccessLines)
        /\ pc = "loop" => Len(results) = idx
        /\ pc \in {"staging", "staged", "committing"} => Len(results) = idx
        /\ SmartDone =>
              /\ ReportedCount(response) = NumStr(Cardinality(SuccessLines))
              /\ ReportedTotal(response) = NumStr(Len(results))
              /\ Len(results) = Len(commits)

\* A returned run with a committed group, a stage failure and nothing else.
C3_Witness ==
    /\ SmartDone
    /\ Len(results) = 2
    /\ Cardinality(SuccessLines) = 1
    /\ ExitOf("commit", 1) = "fail" \/ ExitOf("add", 1) = "fail"

\* --------------------------------------------------------------------- C4

\* C4 (submission order): the outcome at position i carries group number i
\* and the classification key of the i-th submitted group, and if it is a
\* success line it carries that group's summary and number of files.
C4_OrderPreserved ==
    tool = "smart_commit" =>
        \A i \in 1..Len(results) :
            /\ LineGroupNo(results[i]) = NumStr(i)
            /\ LineKey(results[i]) = commits[i].commit_type
            /\ IsSuccessLine(results[i]) =>
                   LineRest(results[i]) =
                       <<": ">> \o commits[i].short_desc \o <<" (">>
                           \o NumStr(Len(commits[i].files)) \o <<" files)">>

\* Two groups that differ in key and file count: a failure, then a success.
C4_Witness ==
    /\ SmartDone
    /\ Len(results) = 2
    /\ commits[1].commit_type # commits[2].commit_type
    /\ Len(commits[1].files) # Len(commits[2].files)
    /\ IsFailureLine(results[1])
    /\ IsSuccessLine(results[2])

\* --------------------------------------------------------------------- C5

\* C5 (empty file list): every processed group whose file list is empty has
\* a failure outcome and no commit command of it exited 0; and a returned run
\* whose only group has an empty file list reports success_count = 0.
C5_EmptyFileListFails ==
    tool = "smart_commit" =>
        /\ \A n \in 1..Len(results) :
               commits[n].files = <<>> =>
                   /\ IsFailureLine(results[n])
                   /\ ExitOf("commit", n) # "ok"
        /\ (SmartDone /\ Len(commits) = 1 /\ commits[1].files = <<>>) =>
               success_count = 0

\* --------------------------------------------------------------------- C6

\* The commit message inside the text generate_commit_message returns:
\* what lies between "<FENCE>\n" and "\n<FENCE>".
FencedMessage(text) == SubSeq(text, 6, Len(text) - 2)

\* C6 (header-only message): a message composed from an empty details list
\* does not contain the body-section marker, in generate_commit_message and
\* in smart_commit alike, and generate_commit_message returns the message
\* smart_commit composes from the same type, summary and details.
C6_EmptyDetailsHeaderOnly ==
    /\ (tool = "generate_commit_message" /\ pc = "done") =>
          /\ gen_param.details = <<>> =>
                 ~Contains(FencedMessage(response), BODY_MARK)
          /\ FencedMessage(response) =
                 SmartCommitMsg(gen_param.commit_type, gen_param.short_desc,
                                gen_param.details)
    /\ (tool = "smart_commit" /\ pc \in {"staging", "staged", "committing"}
            /\ group.details = <<>>) =>
          ~Contains(commit_msg, BODY_MARK)

\* --------------------------------------------------------------------- C7

IsPrefix(a, b) == Len(a) <= Len(b) /\ SubSeq(b, 1, Len(a)) = a

\* C7 (no rollback): no step of a smart_commit run removes or alters a commit
\* of the repository history or a recorded outcome; every commit command that
\* exited 0 has its commit in the history and its success outcome recorded,
\* and each success outcome is in the report the run returns; the only
\* external commands the run launches are git add and git commit.
C7_NoRollback ==
    [][ tool' = "smart_commit" =>
            /\ IsPrefix(history, history')
            /\ IsPrefix(results, results')
            /\ Len(history') = Cardinality(SuccessLines')
            /\ Len(history') =
                   Cardinality({k \in 1..Len(calls') :
                       calls'[k].cmd = "commit" /\ calls'[k].exit = "ok"})
            /\ \A k \in 1..Len(calls') : calls'[k].cmd \in {"add", "commit"}
            /\ pc' = "done" =>
                   \A i \in SuccessLines' : OccursIn(results'[i], response')
      ]_vars

\* A committed first group followed by a group that failed: the commit is
\* still the history when the run has returned.
C7_Witness ==
    /\ SmartDone
    /\ Len(results) = 2
    /\ IsSuccessLine(results[1])
    /\ IsFailureLine(results[2])
    /\ Len(history) = 1
    /\ OccursIn(results[1], response)

\* --------------------------------------------------------------------- C8

\* The state of group i in the per-group state machine, read off the
\* handler's position, the loop index, the outcomes and the launched commands.
GroupState(i) ==
    IF i <= idx
    THEN IF i <= Len(results) /\ IsSuccessLine(results[i]) THEN "Committed"
         ELSE IF CallsOf("commit", i) # {} THEN "CommitFailed"
         ELSE "StageFailed"
    ELSE IF i = idx + 1 /\ pc = "staging" THEN "Staging"
    ELSE IF i = idx + 1 /\ pc = "staged" THEN "Staged"
    ELSE IF i = idx + 1 /\ pc = "committing" THEN "Committing"
    ELSE "Pending"

GroupSteps ==
    { <<"Pending", "Staging">>, <<"Staging", "StageFailed">>,
      <<"Staging", "Staged">>, <<"Staged", "Committing">>,
      <<"Committing", "CommitFailed">>, <<"Committing", "Committed">> }

\* Launch counts of group i fit its state; a commit is launched only after
\* the same group's add exited 0.
LaunchesFit(i) ==
    /\ Cardinality(CallsOf("add", i)) =
           (IF GroupState(i) = "Pending" THEN 0 ELSE 1)
    /\ Cardinality(CallsOf("commit", i)) =
           (IF GroupState(i) \in {"Committing", "CommitFailed", "Committed"}
            THEN 1 ELSE 0)
    /\ \A c \in CallsOf("commit", i) :
           \E a \in CallsOf("add", i) : a < c /\ calls[a].exit = "ok"

\* C8 (per-group state machine): in every step each group keeps its state or
\* moves along an edge of Pending -> Staging -> {StageFailed | Staged ->
\* Committing -> {CommitFailed | Committed}}; git add is launched exactly
\* once for every group that has left Pending, git commit at most once, and
\* only after that group's add exited 0.
C8_GroupStateMachine ==
    [][ \A i \in 1..Len(commits') :
            /\ \/ GroupState(i)' = GroupState(i)
               \/ <<GroupState(i), GroupState(i)'>> \in GroupSteps
            /\ LaunchesFit(i)'
      ]_vars

\* A returned run with a committed group and a group whose commit failed.
C8_Witness ==
    /\ SmartDone
    /\ Len(commits) = 2
    /\ GroupState(1) = "CommitFailed"
    /\ GroupState(2) = "Committed"

\* --------------------------------------------------------------------- C9

\* C9 (strict sequencing): the commands are launched in submission order of
\* their groups, only the most recent one can still be running, and when a
\* command of group n has been launched every group before n has its outcome
\* recorded (has reached StageFailed, CommitFailed or Committed).
C9_StrictSequencing ==
    tool = "smart_commit" =>
        \A k \in 1..Len(calls) :
            /\ \A l \in (k + 1)..Len(calls) :
                   /\ calls[k].group <= calls[l].group
                   /\ calls[k].exit # "running"
            /\ Len(results) >= calls[k].group - 1
            /\ idx >= calls[k].group - 1

\* Two groups, both staged and committed or failed at commit: four launches.
C9_Witness ==
    /\ SmartDone
    /\ Len(commits) = 2
    /\ Len(calls) = 4
    /\ calls[3].group = 2

\* -------------------------------------------------------------------- C10

\* C10 (push reminder): the report a smart_commit run returns contains the
\* push reminder exactly when success_count > 0, which is exactly when the
\* run created a commit; and the run launches no git push.
C10_PushReminder ==
    /\ SmartDone =>
          /\ Contains(response, PUSH_HINT) <=> success_count > 0
          /\ Contains(response, PUSH_HINT) <=> Len(history) > 0
    /\ \A k \in 1..Len(calls) : calls[k].cmd # "push"

\* A run in which one group committed and one failed: the reminder is there.
C10_Witness ==
    /\ SmartDone
    /\ success_count = 1
    /\ Len(results) = 2
    /\ Contains(response, PUSH_HINT)

\* --------------------------------------------- concurrent invocations

\* Mutant of ConcurrentGitCommitCall: the server serializes the requests that
\* target one repository; git_commit waits until smart_commit has returned.
ConcurrentGitCommitCall_Serialized ==
    /\ tool = "smart_commit"
    /\ Len(commits) <= MaxConcGroups
    /\ pc = "done"
    /\ GcLaunchAdd
    /\ UNCHANGED <<pc, tool, smartVars, response, repoVars, repo_ok, index0,
                   gc_response>>

\* A git_commit request for the same repo_path is dispatched while a
\* smart_commit run is in progress: the server is Clone, its handlers are
\* async, and neither handler takes a lock.
ConcurrentGitCommitCall ==
    /\ tool = "smart_commit"
    /\ Len(commits) <= MaxConcGroups
    /\ pc \in {"loop", "staging", "staged", "committing"}
    /\ GcLaunchAdd
    /\ UNCHANGED <<pc, tool, smartVars, response, repoVars, repo_ok, index0,
                   gc_response>>

NextConc == Next \/ ConcurrentGitCommitCall

SpecConc == Init /\ [][NextConc]_vars

\* ------------------------------------------- texts that hold a marker

\* Groups whose caller-supplied summary or classification key contains the
\* emoji the report uses as per-group marker.
MarkedGroup ==
    {[files |-> f, commit_type |-> t.commit_type, short_desc |-> t.short_desc,
      details |-> <<>>] :
        f \in PathLists,
        t \in {[commit_type |-> "fix", short_desc |-> <<OK_MARK, "s3">>],
               [commit_type |-> FAIL_MARK, short_desc |-> <<"s4">>]}}

\* A smart_commit request with such groups.
SmartCommitCallMarked ==
    /\ pc = "idle"
    /\ \E groups \in SeqsUpTo(MarkedGroup, MaxGroups) :
          /\ groups # <<>>
          /\ commits' = groups
    /\ tool' = "smart_commit"
    /\ idx' = 0
    /\ results' = <<>>
    /\ success_count' = 0
    /\ pc' = "loop"
    /\ UNCHANGED <<otherVars, gen_param, commit_msg, response, repoVars, calls>>

NextText == Next \/ SmartCommitCallMarked

SpecText == Init /\ [][NextText]_vars

\* -------------------------------------------------------------------- C11

\* The registry entry a composed message was built from: its emoji and name
\* are the first and third token of the header.
UsedEntry(msg) == [emoji |-> msg[1], name |-> msg[3]]

IsDeclaredKey(key) == \E i \in 1..Len(COMMIT_TYPES) : COMMIT_TYPES[i].name = key

\* The entry used for `key` is the declared entry of that name, or, for a key
\* that is not declared, entry 0 ("feat").
LookupOk(key, msg) ==
    /\ \E i \in 1..Len(COMMIT_TYPES) : COMMIT_TYPES[i] = UsedEntry(msg)
    /\ IsDeclaredKey(key) => UsedEntry(msg).name = key
    /\ ~IsDeclaredKey(key) =>
           UsedEntry(msg) = COMMIT_TYPES[1] /\ UsedEntry(msg).name = "feat"

\* C11 (classification lookup): the registry declares 15 distinct keys; the
\* message generate_commit_message returns and the message smart_commit
\* composes are built from the entry whose key is the given key, or from
\* entry 0 ("feat") when the key is not declared; and a group with an
\* undeclared key is processed like any other: when the run has returned,
\* its git add was launched and its outcome is recorded.
C11_LookupTotal ==
    /\ Len(COMMIT_TYPES) = 15
    /\ \A i, j \in 1..Len(COMMIT_TYPES) :
           COMMIT_TYPES[i].name = COMMIT_TYPES[j].name => i = j
    /\ (tool = "generate_commit_message" /\ pc = "done") =>
           LookupOk(gen_param.commit_type, FencedMessage(response))
    /\ (tool = "smart_commit" /\ pc \in {"staging", "staged", "committing"}) =>
           LookupOk(group.commit_type, commit_msg)
    /\ SmartDone =>
           \A j \in 1..Len(commits) :
               ~IsDeclaredKey(commits[j].commit_type) =>
                   /\ ExitOf("add", j) # "none"
                   /\ Len(results) >= j
                   /\ LineKey(results[j]) = commits[j].commit_type

\* A returned run whose first group has an undeclared key and was committed
\* under the default entry.
C11_Witness ==
    /\ SmartDone
    /\ Len(commits) >= 1
    /\ ~IsDeclaredKey(commits[1].commit_type)
    /\ IsSuccessLine(results[1])
    /\ UsedEntry(history[1].message) = COMMIT_TYPES[1]

\* -------------------------------------------------------------------- C12

\* C12 (repository unavailable): when repo_path is not a repository, no
\* stage or commit takes effect, git_status and git_commit return a failure
\* message, and each of git_commit and smart_commit aborts at the first
\* failure: it launches no command after the one that failed.
C12_RepositoryUnavailableAborts ==
    ~repo_ok =>
        /\ history = <<>> /\ index = {} /\ dirty = {}
        /\ (tool = "git_status" /\ pc = "done") => IsFailureLine(response)
        /\ Len(gc_calls) <= 1
        /\ gc_pc = "done" => IsFailureLine(gc_response)
        /\ Len(calls) <= 1

\* -------------------------------------------------------------------- C13

\* C13 (no mutual exclusion): nothing the one invocation does keeps the
\* other from taking its next step.  While a smart_commit run is in progress
\* a git_commit request can be dispatched, and each handler's next step is
\* possible whenever git itself allows it, wherever the other handler is:
\* between one run's git add and its git commit the other run can stage and
\* commit.
C13_NoMutualExclusion ==
    /\ (tool = "smart_commit" /\ gc_pc = "idle"
            /\ Len(commits) <= MaxConcGroups
            /\ pc \in {"loop", "staging", "staged", "committing"}) =>
           ENABLED ConcurrentGitCommitCall
    /\ (gc_pc = "adding" /\ repo_ok) => ENABLED GcAddSucceeded
    /\ gc_pc = "added" => ENABLED GcLaunchCommit
    /\ (gc_pc = "committing" /\ CommitCanSucceed) => ENABLED GcCommitSucceeded
    /\ (tool = "smart_commit" /\ pc = "loop" /\ idx < Len(commits)) =>
           ENABLED BeginGroup
    /\ (tool = "smart_commit" /\ pc = "staging"
            /\ AddCanSucceed(group.files)) => ENABLED AddSucceeded
    /\ (tool = "smart_commit" /\ pc = "staged") => ENABLED LaunchCommit
    /\ (tool = "smart_commit" /\ pc = "committing" /\ CommitCanSucceed) =>
           ENABLED CommitSucceeded

\* Nothing was staged beforehand; the commit smart_commit made for its first
\* group holds a file that is not of that group: git_commit's `git add .`
\* staged it between the group's git add and git commit.
C13_Witness ==
    /\ index0 = {}
    /\ Len(history) >= 1
    /\ history[1].group = 1
    /\ ~(history[1].files \subseteq PathSet(commits[1].files))
    /\ Len(gc_calls) >= 1
    /\ gc_calls[1].exit = "ok"

\* -------------------------------------------------------------------- C14

\* Number of per-group markers in a rendered text.
RECURSIVE MarkerCount(_)
MarkerCount(text) ==
    IF Len(text) = 0 THEN 0
    ELSE (IF Head(text) \in {OK_MARK, FAIL_MARK} THEN 1 ELSE 0)
             + MarkerCount(Tail(text))

\* C14 (report round trip): the number of per-group markers in the report a
\* smart_commit run returns is the number of groups submitted.
C14_ReportRoundTrip ==
    SmartDone => MarkerCount(response) = Len(commits)

\* -------------------------------------------------------------------- C15

\* C15 (commit content isolation): in a smart_commit run that started with
\* an empty index, every commit created for a group holds changes only of
\* files the group lists.
C15_CommitContentIsolation ==
    (tool = "smart_commit" /\ index0 = {}) =>
        \A k \in 1..Len(history) :
            history[k].files \subseteq
                PathSet(commits[history[k].group].files)

\* -------------------------------------------------------------------- C16

\* Groups whose git add and git commit both exited 0.
BothExitedOk ==
    {n \in 1..Len(commits) :
        ExitOf("add", n) = "ok" /\ ExitOf("commit", n) = "ok"}

\* C16 (success outcome): a recorded outcome is a success line exactly if
\* the group's git add and git commit both exited 0; a success line ends
\* with the number of files the group lists; and success_count is at every
\* moment the number of groups whose add and commit both exited 0, so it
\* grows by one with each such group and with nothing else.
C16_SuccessIffBothOk ==
    tool = "smart_commit" =>
        /\ \A n \in 1..Len(results) :
               /\ IsSuccessLine(results[n]) <=> n \in BothExitedOk
               /\ IsFailureLine(results[n]) <=> n \notin BothExitedOk
               /\ IsSuccessLine(results[n]) =>
                      EndsWith(results[n],
                               <<" (">> \o NumStr(Len(commits[n].files))
                                   \o <<" files)">>)
        /\ success_count = Cardinality(BothExitedOk)

\* A committed group of one file, then a group whose commit could not be
\* launched.
C16_Witness ==
    /\ SmartDone
    /\ Len(commits) = 2
    /\ 1 \in BothExitedOk
    /\ Len(commits[1].files) = 1
    /\ ExitOf("commit", 2) = "launch_err"
    /\ success_count = 1

\* -------------------------------------------------------------------- C17

\* C17 (single-shot git_commit): the first command is `git add .`; if it
\* exited nonzero or could not be launched, git commit is never launched,
\* nothing is committed and a failure message is returned; the success
\* message is returned exactly when git add and git commit both exited 0.
C17_GitCommitSingleShot ==
    (tool = "git_commit" /\ Len(gc_calls) >= 1) =>
        /\ gc_calls[1].cmd = "add" /\ gc_calls[1].args = <<".">>
        /\ Len(gc_calls) <= 2
        /\ gc_calls[1].exit \in {"fail", "launch_err"} =>
               /\ Len(gc_calls) = 1
               /\ gc_pc = "done"
               /\ IsFailureLine(gc_response)
               /\ history = <<>>
        /\ Len(gc_calls) = 2 =>
               gc_calls[2].cmd = "commit" /\ gc_calls[1].exit = "ok"
        /\ gc_pc = "done" =>
               /\ IsSuccessLine(gc_response) <=>
                      /\ Len(gc_calls) = 2
                      /\ gc_calls[1].exit = "ok"
                      /\ gc_calls[2].exit = "ok"
               /\ IsSuccessLine(gc_response) \/ IsFailureLine(gc_response)
        /\ gc_pc # "done" => gc_response = <<>>

\* git add could not be launched: git_commit has returned the failure.
C17_Witness ==
    /\ tool = "git_commit"
    /\ gc_pc = "done"
    /\ Len(gc_calls) = 1
    /\ gc_calls[1].exit = "launch_err"
    /\ IsFailureLine(gc_response)

\* -------------------------------------------------------------------- C18

\* The handler's own steps are taken once they are possible, and every
\* external command that was launched returns with one of its outcomes.
SpecLive ==
    /\ Init
    /\ [][Next]_vars
    /\ WF_vars(BeginGroup \/ LaunchCommit \/ Finish)
    /\ WF_vars(AddFailed \/ AddLaunchError \/ AddSucceeded)
    /\ WF_vars(CommitSucceeded \/ CommitFailed \/ CommitLaunchError)

\* Every group has one result line, was staged exactly once and committed at
\* most once, and the single report over all the lines has been returned.
ProcessedOnce ==
    /\ idx = Len(commits)
    /\ Len(results) = Len(commits)
    /\ \A n \in 1..Len(commits) :
           /\ Cardinality(CallsOf("add", n)) = 1
           /\ Cardinality(CallsOf("commit", n)) <= 1
           /\ LineGroupNo(results[n]) = NumStr(n)
    /\ \A k \in 1..Len(calls) : calls[k].exit # "running"
    /\ response = Report(success_count, Len(commits), results)

\* C18 (termination): provided each external command returns, a smart_commit
\* run eventually returns, and when it has returned every group was processed
\* exactly once and one report was produced, whatever stage or commit failure
\* (launch errors included) occurred on the way.
C18_Termination ==
    /\ (tool = "smart_commit") ~> SmartDone
    /\ [](SmartDone => ProcessedOnce)

\* A two-group run has returned although the first group's git add could not
\* be launched and the second group's git commit could not be launched.
C18_Witness ==
    /\ SmartDone
    /\ Len(commits) = 2
    /\ ExitOf("add", 1) = "launch_err"
    /\ ExitOf("commit", 2) = "launch_err"
    /\ ProcessedOnce

====
